---- MODULE Spec2Model ----
(***************************************************************************)
(* ParentPal profile backend: the domain model (profile_models.py), the    *)
(* Firestore-backed ProfileService (profile_services.py), the extraction   *)
(* agent (profile_agent.py) and the workflow coordinator                   *)
(* (workflow_agent.py), as one state machine over the document store.      *)
(*                                                                         *)
(* Python values.  None is the record [py |-> "None"].  A str is a record  *)
(* [py |-> "str", ...]: either a sequence of tokens s (a word, " " for a   *)
(* run of whitespace, "," for a comma), or, for a text of the shape        *)
(* dd/dd/dddd, the three numbers mdy.  A dict is a function from its keys. *)
(***************************************************************************)
EXTENDS Integers, Sequences, FiniteSets, TLC

VARIABLES db, clock, last, chat_history, exchanges, calls

vars == <<db, clock, last, chat_history, exchanges, calls>>

----------------------------------------------------------------------------
(* Python values *)

None == [py |-> "None"]

Str(toks) == [py |-> "str", s |-> toks]

DateStr(m, d, y) == [py |-> "str", mdy |-> <<m, d, y>>]

IsToks(v) == "s" \in DOMAIN v

IsMdy(v) == "mdy" \in DOMAIN v

\* bool(v) of a str or None: None and "" are falsy
Truthy(v) == v # None /\ v # Str(<<>>)

HasKey(d, k) == k \in DOMAIN d

\* dict.get(k): None when the key is absent
Get(d, k) == IF k \in DOMAIN d THEN d[k] ELSE None

\* dict.pop(k, None) / a dict without key k
Without(d, k) == [x \in (DOMAIN d) \ {k} |-> d[x]]

RECURSIVE LStripToks(_)
LStripToks(s) == IF s # <<>> /\ Head(s) = " " THEN LStripToks(Tail(s)) ELSE s

RECURSIVE RStripToks(_)
RStripToks(s) ==
    IF s # <<>> /\ s[Len(s)] = " " THEN RStripToks(SubSeq(s, 1, Len(s) - 1)) ELSE s

\* str.strip()
Strip(v) == IF IsToks(v) THEN Str(RStripToks(LStripToks(v.s))) ELSE v

\* len(v.split(',')): one more than the number of commas
RECURSIVE CountCommas(_)
CountCommas(s) ==
    IF s = <<>> THEN 0
    ELSE (IF Head(s) = "," THEN 1 ELSE 0) + CountCommas(Tail(s))

CommaParts(v) == IF IsToks(v) THEN CountCommas(v.s) + 1 ELSE 1

\* str.split(): the maximal runs of non-whitespace tokens, each a token sequence
RECURSIVE SplitWs(_, _)
SplitWs(s, cur) ==
    IF s = <<>> THEN (IF cur = <<>> THEN <<>> ELSE <<cur>>)
    ELSE IF Head(s) = " "
         THEN (IF cur = <<>> THEN <<>> ELSE <<cur>>) \o SplitWs(Tail(s), <<>>)
         ELSE SplitWs(Tail(s), Append(cur, Head(s)))

\* " ".join(parts)
RECURSIVE JoinSpace(_)
JoinSpace(parts) ==
    IF parts = <<>> THEN <<>>
    ELSE IF Len(parts) = 1 THEN parts[1]
    ELSE parts[1] \o <<" ">> \o JoinSpace(Tail(parts))

----------------------------------------------------------------------------
(* Domain model: profile_models.py *)

\* datetime.today() as the validators read it
Today == [m |-> 11, d |-> 5, y |-> 2026]

IsLeap(y) == (y % 4 = 0 /\ y % 100 # 0) \/ y % 400 = 0

DaysInMonth(m, y) ==
    IF m = 2 THEN (IF IsLeap(y) THEN 29 ELSE 28)
    ELSE IF m \in {4, 6, 9, 11} THEN 30 ELSE 31

\* datetime(year, month, day) does not raise ValueError
IsCalendarDate(m, d, y) ==
    y >= 1 /\ y <= 9999 /\ m >= 1 /\ m <= 12 /\ d >= 1 /\ d <= DaysInMonth(m, y)

\* (a.month, a.day) < (m, d)
MonthDayBefore(am, ad, m, d) == am < m \/ (am = m /\ ad < d)

\* today.year - dob.year - ((today.month, today.day) < (month, day))
AgeOf(m, d, y) ==
    Today.y - y - (IF MonthDayBefore(Today.m, Today.d, m, d) THEN 1 ELSE 0)

\* dob > today, dob at midnight and today with its time of day
InFuture(m, d, y) ==
    y > Today.y \/ (y = Today.y /\ MonthDayBefore(Today.m, Today.d, m, d))

Ok(v) == [ok |-> TRUE, val |-> v]

Fail(e) == [ok |-> FALSE, err |-> e]

\* NameComponents.validate_name_parts; a None is refused by the str type
validate_name_parts(v) ==
    IF v = None THEN Fail("str_type")
    ELSE IF ~Truthy(v) \/ Strip(v) = Str(<<>>) THEN Fail("Name parts cannot be empty")
    ELSE Ok(Strip(v))

\* NameComponents(**d) once its two name parts f and l are validated
NameComponentsFrom(d, f, l) ==
    IF ~f.ok THEN f
    ELSE IF ~l.ok THEN l
    ELSE Ok([firstName |-> f.val, middleName |-> Get(d, "middleName"), lastName |-> l.val])

\* NameComponents(**d)
NameComponents(d) ==
    IF ~HasKey(d, "firstName") \/ ~HasKey(d, "lastName") THEN Fail("missing")
    ELSE NameComponentsFrom(d, validate_name_parts(d["firstName"]),
                            validate_name_parts(d["lastName"]))

\* a date validator that takes any calendar date of the last 120 years or later
DateNotOverAge(v) ==
    IF ~Truthy(v) THEN Ok(v)
    ELSE IF ~IsMdy(v) THEN Fail("Date validation error")
    ELSE IF ~(1 <= v.mdy[1] /\ v.mdy[1] <= 12 /\ 1 <= v.mdy[2] /\ v.mdy[2] <= 31)
       THEN Fail("Date validation error")
    ELSE IF ~IsCalendarDate(v.mdy[1], v.mdy[2], v.mdy[3]) THEN Fail("Date validation error")
    ELSE IF AgeOf(v.mdy[1], v.mdy[2], v.mdy[3]) > 120 THEN Fail("Date validation error")
    ELSE Ok(v)

\* PersonProfile.validate_date_format
validate_date_format(v) ==
    IF ~Truthy(v) THEN Ok(v)
    ELSE IF ~IsMdy(v) THEN Fail("Date validation error")
    ELSE IF ~(1 <= v.mdy[1] /\ v.mdy[1] <= 12 /\ 1 <= v.mdy[2] /\ v.mdy[2] <= 31)
       THEN Fail("Date validation error")
    ELSE IF ~IsCalendarDate(v.mdy[1], v.mdy[2], v.mdy[3]) THEN Fail("Date validation error")
    ELSE IF InFuture(v.mdy[1], v.mdy[2], v.mdy[3]) THEN Fail("Date validation error")
    ELSE IF AgeOf(v.mdy[1], v.mdy[2], v.mdy[3]) > 120 THEN Fail("Date validation error")
    ELSE Ok(v)

\* ChildProfile.validate_child_age: a ValueError other than the age one is swallowed
validate_child_age(v) ==
    IF ~Truthy(v) THEN Ok(v)
    ELSE IF ~IsMdy(v) THEN Ok(v)
    ELSE IF ~IsCalendarDate(v.mdy[1], v.mdy[2], v.mdy[3]) THEN Ok(v)
    ELSE IF AgeOf(v.mdy[1], v.mdy[2], v.mdy[3]) >= 18
            THEN Fail("Child's age must be under 18")
    ELSE Ok(v)

\* UserProfile.validate_address
validate_address(v) ==
    IF v = None THEN Fail("str_type")
    ELSE IF ~Truthy(v) \/ Strip(v) = Str(<<>>) THEN Fail("Address cannot be empty")
    ELSE IF CommaParts(Strip(v)) < 2 THEN Fail("Address must include street and city")
    ELSE Ok(Strip(v))

\* PersonProfile(**d) once its name n and date of birth b are validated
PersonProfileFrom(n, b) ==
    IF ~n.ok THEN n
    ELSE IF ~b.ok THEN b
    ELSE Ok([name |-> n.val, dateOfBirth |-> b.val])

\* PersonProfile(**d): the fields name and dateOfBirth
PersonProfile(d) ==
    IF ~HasKey(d, "name") THEN Fail("missing")
    ELSE PersonProfileFrom(NameComponents(d["name"]),
                           validate_date_format(Get(d, "dateOfBirth")))

\* SpouseProfile(**d).dict()
SpouseProfile(d) == PersonProfile(d)

\* ChildProfile(**d).dict() once the inherited fields p and the child's age a are validated
ChildProfileFrom(d, p, a) ==
    IF ~a.ok THEN a
    ELSE Ok([name |-> p.val.name, dateOfBirth |-> p.val.dateOfBirth,
             interests |-> IF HasKey(d, "interests") THEN d["interests"] ELSE <<>>,
             medicalConsiderations |-> IF HasKey(d, "medicalConsiderations")
                                          THEN d["medicalConsiderations"] ELSE <<>>])

\* ChildProfile(**d) after the inherited validators gave p
ChildProfileAfter(d, p) ==
    IF ~p.ok THEN p ELSE ChildProfileFrom(d, p, validate_child_age(p.val.dateOfBirth))

\* ChildProfile(**d).dict()
ChildProfile(d) == ChildProfileAfter(d, PersonProfile(d))

\* UserProfile(**d).dict() once the inherited fields p and the address a are validated;
\* now is what the default_factory of a timestamp gives
UserProfileFrom(d, now, p, a) ==
    IF ~a.ok THEN a
    ELSE Ok([name |-> p.val.name, dateOfBirth |-> p.val.dateOfBirth, address |-> a.val,
             profileCreatedAt |-> IF HasKey(d, "profileCreatedAt")
                                     THEN d["profileCreatedAt"] ELSE now,
             profileUpdatedAt |-> IF HasKey(d, "profileUpdatedAt")
                                     THEN d["profileUpdatedAt"] ELSE now,
             profileComplete |-> IF HasKey(d, "profileComplete")
                                    THEN d["profileComplete"] ELSE FALSE])

\* UserProfile(**d) after the inherited validators gave p
UserProfileAfter(d, now, p) ==
    IF ~p.ok THEN p
    ELSE IF ~HasKey(d, "address") THEN Fail("missing")
    ELSE UserProfileFrom(d, now, p, validate_address(d["address"]))

\* UserProfile(**d).dict()
UserProfile(d, now) == UserProfileAfter(d, now, PersonProfile(d))

----------------------------------------------------------------------------
(* The document store and ProfileService: profile_services.py *)

\* the user ids the store holds collections for
Users == {"u1", "u2"}

\* the user the requests of Spec are made for
Callers == {"u1"}

\* how many auto-generated child document ids the store can hand out per user
MaxChildren == 2

ChildIds == 1 .. MaxChildren

\* how many times the wall clock is read (one tick per updateUserProfile call)
MaxClock == 3

\* _parse_name once full_name.split() gave parts
ParsedName(parts) ==
    IF Len(parts) = 2
       THEN NameComponents([firstName |-> Str(parts[1]), lastName |-> Str(parts[2])])
    ELSE IF Len(parts) > 2
       THEN NameComponents([firstName |-> Str(parts[1]),
                            middleName |-> Str(JoinSpace(SubSeq(parts, 2, Len(parts) - 1))),
                            lastName |-> Str(parts[Len(parts)])])
    ELSE Fail("Name must include at least first and last name")

\* ProfileService._parse_name
_parse_name(full_name) ==
    ParsedName(IF IsToks(full_name) THEN SplitWs(full_name.s, <<>>) ELSE <<full_name>>)

\* data with its "fullName" replaced by the parsed name n
WithParsedName(data, n) ==
    IF ~n.ok THEN n ELSE Ok(("name" :> n.val) @@ Without(data, "fullName"))

\* the name handling every mutating operation starts with: a "name" is kept, else a
\* "fullName" is parsed into one, and "fullName" is removed
HandleName(data) ==
    IF HasKey(data, "name") THEN Ok(Without(data, "fullName"))
    ELSE IF HasKey(data, "fullName") THEN WithParsedName(data, _parse_name(data["fullName"]))
    ELSE Ok(data)

\* DocumentReference.set(data, merge=True) on an existing document: the fields of
\* data replace those of old, a map field (name) field by field
MergeDoc(old, data) ==
    [k \in (DOMAIN old) \cup (DOMAIN data) |->
        IF k \notin DOMAIN data THEN old[k]
        ELSE IF k = "name" /\ k \in DOMAIN old THEN data[k] @@ old[k]
        ELSE data[k]]

\* a write that keeps every field the document already has
SetUserKeepOld(d, u, data) ==
    [d EXCEPT !.users = IF u \in DOMAIN @ THEN (u :> (@[u] @@ data)) @@ @
                        ELSE (u :> data) @@ @]

\* users/{u}.set(data, merge=True): creates the document when there is none
SetUserMerge(d, u, data) ==
    [d EXCEPT !.users = IF u \in DOMAIN @ THEN (u :> MergeDoc(@[u], data)) @@ @
                        ELSE (u :> data) @@ @]

\* ProfileService._create_profile_structure: users/{u}.set(initial_data)
_create_profile_structure(d, u, now) ==
    [d EXCEPT !.users =
        (u :> [name |-> [firstName |-> Str(<<>>), middleName |-> None,
                         lastName |-> Str(<<>>)],
               dateOfBirth |-> Str(<<>>),
               address |-> Str(<<>>),
               profileComplete |-> FALSE,
               profileCreatedAt |-> now,
               profileUpdatedAt |-> now]) @@ @]

\* a count written to the whole users collection instead of the document of u
CountOnEveryUser(d, u) ==
    [d EXCEPT !.users =
        [v \in DOMAIN @ \cup {u} |->
            IF v \in DOMAIN @
               THEN MergeDoc(@[v], [childrenCount |-> Cardinality(DOMAIN d.children[u])])
            ELSE [childrenCount |-> Cardinality(DOMAIN d.children[u])]]]

\* ProfileService.updateChildrenCount
updateChildrenCount(d, u) ==
    SetUserMerge(d, u, [childrenCount |-> Cardinality(DOMAIN d.children[u])])

\* the ids of a collection in the order the store iterates them
RECURSIVE IdsInOrder(_)
IdsInOrder(S) ==
    IF S = {} THEN <<>>
    ELSE LET m == CHOOSE x \in S : \A y \in S : x <= y
         IN  <<m>> \o IdsInOrder(S \ {m})

\* the children list of getUserProfile: each document with its id, in store order
ChildrenData(docs, ids) ==
    [i \in 1 .. Len(ids) |-> ("id" :> ids[i]) @@ docs[ids[i]]]

\* the spouse of getUserProfile: the first document of the spouse collection
SpouseData(sp) ==
    IF DOMAIN sp = {} THEN None ELSE sp[CHOOSE k \in DOMAIN sp : TRUE]

\* what a ProfileService call gives back: the store after it, whether it raised,
\* and its return value (the error text when it raised)
Returned(d, r) == [db |-> d, raised |-> FALSE, ret |-> r]

Raised(d, e) == [db |-> d, raised |-> TRUE, ret |-> e]

\* ProfileService.getUserProfile; it rewrites childrenCount
getUserProfile(d, u) ==
    IF u \notin DOMAIN d.users THEN Returned(d, [exists |-> FALSE])
    ELSE Returned(updateChildrenCount(d, u),
                  [exists   |-> TRUE,
                   profile  |-> d.users[u],
                   spouse   |-> SpouseData(d.spouse[u]),
                   children |-> ChildrenData(d.children[u],
                                             IdsInOrder(DOMAIN d.children[u]))])

\* the missing name parts and date of birth of one person, each name prefixed
MissingOfPerson(p, prefix) ==
    (IF ~HasKey(p, "name") THEN <<prefix \o "name">>
     ELSE (IF ~Truthy(Get(p["name"], "firstName")) THEN <<prefix \o "firstName">> ELSE <<>>)
          \o (IF ~Truthy(Get(p["name"], "lastName")) THEN <<prefix \o "lastName">> ELSE <<>>))
    \o (IF ~Truthy(Get(p, "dateOfBirth")) THEN <<prefix \o "dateOfBirth">> ELSE <<>>)

RECURSIVE MissingOfChildren(_, _)
MissingOfChildren(children, i) ==
    IF i > Len(children) THEN <<>>
    ELSE MissingOfPerson(children[i], "child_" \o ToString(i) \o "_")
         \o MissingOfChildren(children, i + 1)

\* the missing_fields list of getProfileCompletionStatus for an existing profile
MissingFields(profile) ==
    MissingOfPerson(profile.profile, "")
    \o (IF ~Truthy(Get(profile.profile, "address")) THEN <<"address">> ELSE <<>>)
    \o (IF profile.spouse # None THEN MissingOfPerson(profile.spouse, "spouse_") ELSE <<>>)
    \o MissingOfChildren(profile.children, 1)

\* the dict getProfileCompletionStatus returns for the list missing_fields
CompletionStatus(missing_fields) ==
    [isComplete |-> Len(missing_fields) = 0, missingFields |-> missing_fields]

\* getProfileCompletionStatus once getUserProfile gave g
CompletionOf(g) ==
    IF ~g.ret.exists
       THEN Returned(g.db, [isComplete |-> FALSE, missingFields |-> <<"profile">>])
    ELSE Returned(g.db, CompletionStatus(MissingFields(g.ret)))

\* ProfileService.getProfileCompletionStatus
getProfileCompletionStatus(d, u) == CompletionOf(getUserProfile(d, u))

\* updateProfileCompletionStatus once getProfileCompletionStatus gave c
StoreCompletion(u, c) ==
    Returned(SetUserMerge(c.db, u, [profileComplete |-> c.ret.isComplete]), c.ret)

\* ProfileService.updateProfileCompletionStatus
updateProfileCompletionStatus(d, u) == StoreCompletion(u, getProfileCompletionStatus(d, u))

\* updateUserProfile from the validation on: d1 is the store with the user document
UpdateValidated(d1, u, validated_profile) ==
    IF ~validated_profile.ok THEN Raised(d1, validated_profile.err)
    ELSE Returned(updateProfileCompletionStatus(
                      SetUserMerge(d1, u, validated_profile.val), u).db,
                  [success |-> TRUE])

\* updateUserProfile from the timestamps on: data is profileData, stamped
UpdateStamped(d1, u, data, now) ==
    UpdateValidated(d1, u, UserProfile(data @@ d1.users[u], now))

\* updateUserProfile after the name handling gave n
UpdateHandled(d, u, n, now) ==
    IF ~n.ok THEN Raised(d, n.err)
    ELSE IF u \in DOMAIN d.users
       THEN UpdateStamped(d, u, ("profileUpdatedAt" :> now) @@ n.val, now)
    ELSE UpdateStamped(_create_profile_structure(d, u, now), u,
                       ("profileCreatedAt" :> now) @@ ("profileUpdatedAt" :> now) @@ n.val,
                       now)

\* ProfileService.updateUserProfile, the clock reading now
updateUserProfile(d, u, profileData, now) ==
    UpdateHandled(d, u, HandleName(profileData), now)

\* the key addSpouse stores the spouse document under
SpouseKey == "current"

\* a spouse write that lets the store generate the document id, as addChild does
SetSpouseGenerated(d, u, key, data) ==
    [d EXCEPT !.spouse[u] =
        (("spouse" \o ToString(Cardinality(DOMAIN @) + 1)) :> data) @@ @]

\* spouse/{key}.set(data, merge=True) under user u
SetSpouseMerge(d, u, key, data) ==
    [d EXCEPT !.spouse[u] =
        (key :> (IF key \in DOMAIN @ THEN MergeDoc(@[key], data) ELSE data)) @@ @]

\* addSpouse from the validation on
AddSpouseValidated(d, u, validated_spouse) ==
    IF ~validated_spouse.ok THEN Raised(d, validated_spouse.err)
    ELSE Returned(SetSpouseMerge(d, u, SpouseKey, validated_spouse.val),
                  [success |-> TRUE, spouseId |-> SpouseKey])

\* addSpouse after the name handling gave n
AddSpouseHandled(d, u, n) ==
    IF ~n.ok THEN Raised(d, n.err) ELSE AddSpouseValidated(d, u, SpouseProfile(n.val))

\* ProfileService.addSpouse
addSpouse(d, u, spouseData) == AddSpouseHandled(d, u, HandleName(spouseData))

\* an addChild that stores the child and leaves the stored children count as it is
AddChildUncounted(d, u, validated_child, newId) ==
    IF ~validated_child.ok THEN Raised(d, validated_child.err)
    ELSE Returned([d EXCEPT !.children[u] = (newId :> validated_child.val) @@ @],
                  [success |-> TRUE, childId |-> newId])

\* addChild from the validation on
AddChildValidated(d, u, validated_child, newId) ==
    IF ~validated_child.ok THEN Raised(d, validated_child.err)
    ELSE Returned(updateChildrenCount(
                      [d EXCEPT !.children[u] = (newId :> validated_child.val) @@ @], u),
                  [success |-> TRUE, childId |-> newId])

\* addChild after the name handling gave n
AddChildHandled(d, u, n, newId) ==
    IF ~n.ok THEN Raised(d, n.err) ELSE AddChildValidated(d, u, ChildProfile(n.val), newId)

\* ProfileService.addChild, the store generating the document id newId
addChild(d, u, childData, newId) == AddChildHandled(d, u, HandleName(childData), newId)

\* updateChild from the validation on
UpdateChildValidated(d, u, childId, validated_child) ==
    IF ~validated_child.ok THEN Raised(d, validated_child.err)
    ELSE Returned([d EXCEPT !.children[u][childId] = MergeDoc(@, validated_child.val)],
                  [success |-> TRUE])

\* updateChild after the name handling gave n
UpdateChildHandled(d, u, childId, n) ==
    IF ~n.ok THEN Raised(d, n.err)
    ELSE IF childId \notin DOMAIN d.children[u]
       THEN Returned(d, [success |-> FALSE, error |-> "Child not found"])
    ELSE UpdateChildValidated(d, u, childId,
                              ChildProfile(n.val @@ d.children[u][childId]))

\* ProfileService.updateChild
updateChild(d, u, childId, childData) ==
    UpdateChildHandled(d, u, childId, HandleName(childData))

----------------------------------------------------------------------------
(* The extraction agent: profile_agent.py *)

\* a Python str holding one text
Text(msg) == Str(<<msg>>)

\* the dict ProfileAgent.process returns
AgentResponse(status, response, data, action, error, details) ==
    [status |-> status, response |-> response, data |-> data, action |-> action,
     error |-> error, details |-> details]

\* the local variables bound when the log lines after json.loads run
BoundAtLog == {"messages", "function_schema", "response", "extracted_data"}

\* the local variables those log lines read
ReadAtLog == {"extracted_data", "required_fields", "missing_fields"}

\* required_fields of ProfileAgent.process
required_fields ==
    [update_profile |-> <<"firstName", "lastName", "dateOfBirth", "address">>,
     add_spouse     |-> <<"firstName", "lastName", "dateOfBirth">>,
     add_child      |-> <<"firstName", "lastName", "dateOfBirth">>]

\* [field for field in fields if not extracted_data.get(field)]
RECURSIVE MissingOf(_, _)
MissingOf(fields, extracted_data) ==
    IF fields = <<>> THEN <<>>
    ELSE (IF ~Truthy(Get(extracted_data, Head(fields))) THEN <<Head(fields)>> ELSE <<>>)
         \o MissingOf(Tail(fields), extracted_data)

\* ', '.join(fields)
RECURSIVE JoinComma(_)
JoinComma(fields) ==
    IF fields = <<>> THEN ""
    ELSE IF Len(fields) = 1 THEN fields[1]
    ELSE fields[1] \o ", " \o JoinComma(Tail(fields))

\* the name the agent builds from the extracted firstName and lastName
ExtractedName(extracted_data) ==
    [firstName |-> Get(extracted_data, "firstName"),
     lastName  |-> Get(extracted_data, "lastName")]

\* the validation block of ProfileAgent.process once the name is validated
ValidateNamed(action, extracted_data, name_components, now) ==
    IF ~name_components.ok THEN name_components
    ELSE IF action = "update_profile"
       THEN UserProfile([name |-> name_components.val,
                         dateOfBirth |-> Get(extracted_data, "dateOfBirth"),
                         address |-> Get(extracted_data, "address")], now)
    ELSE IF action = "add_spouse"
       THEN SpouseProfile([name |-> name_components.val,
                           dateOfBirth |-> Get(extracted_data, "dateOfBirth")])
    ELSE ChildProfile(
            [name |-> name_components.val,
             dateOfBirth |-> Get(extracted_data, "dateOfBirth"),
             interests |-> IF HasKey(extracted_data, "interests")
                              THEN extracted_data["interests"] ELSE <<>>,
             medicalConsiderations |->
                 IF HasKey(extracted_data, "medicalConsiderations")
                    THEN extracted_data["medicalConsiderations"] ELSE <<>>])

\* the validation block of ProfileAgent.process: the profile built for the action
ValidateExtracted(action, extracted_data, now) ==
    ValidateNamed(action, extracted_data, NameComponents(ExtractedName(extracted_data)), now)

\* the reply of ProfileAgent.process for the validated profile v
ValidatedResponse(action, v) ==
    IF ~v.ok
       THEN AgentResponse("error", "An unexpected error occurred while processing your request.",
                          None, action, Text(v.err), None)
    ELSE AgentResponse("success",
                       IF action = "update_profile"
                          THEN "Great! I've got your profile information."
                       ELSE IF action = "add_spouse"
                          THEN "I've recorded your spouse's information."
                       ELSE "I've recorded your child's information.",
                       v.val, action, None, None)

\* ProfileAgent.process once missing_fields is computed
CheckedResponse(action, extracted_data, missing_fields, now) ==
    IF missing_fields # <<>>
       THEN AgentResponse("needs_input",
                          "I need more information. Could you provide your "
                              \o JoinComma(missing_fields) \o "?",
                          extracted_data, action, None,
                          [missing_fields |-> missing_fields])
    ELSE ValidatedResponse(action, ValidateExtracted(action, extracted_data, now))

\* ProfileAgent.process from the required-fields check on
CheckAndValidate(action, extracted_data, now) ==
    IF action \notin DOMAIN required_fields
       THEN AgentResponse("error", "An unexpected error occurred while processing your request.",
                          None, action, Text("KeyError"), None)
    ELSE CheckedResponse(action, extracted_data,
                         MissingOf(required_fields[action], extracted_data), now)

\* ProfileAgent.process; llm is what the model call does: it raises, answers in plain
\* text, or answers with a function call carrying the arguments args
ProfileAgentProcess(action, llm, now) ==
    IF llm.kind = "raise"
       THEN AgentResponse("error", "An unexpected error occurred while processing your request.",
                          None, action, Text("model call failed"), None)
    ELSE IF llm.kind = "text"
       THEN AgentResponse("needs_input",
                          "I couldn't extract the necessary information. Could you provide more details?",
                          None, action, None, None)
    ELSE IF ~(ReadAtLog \subseteq BoundAtLog)
       THEN AgentResponse("error", "An unexpected error occurred while processing your request.",
                          None, action, Text("UnboundLocalError"), None)
    ELSE CheckAndValidate(action, llm.args, now)

----------------------------------------------------------------------------
(* The workflow coordinator: workflow_agent.py *)

\* ProfileStatus(...).model_dump()
ProfileStatus(exists, is_complete, missing_fields, profile_data, error) ==
    [exists |-> exists, is_complete |-> is_complete, missing_fields |-> missing_fields,
     profile_data |-> profile_data, error |-> error]

\* get_profile_status once both service calls answered
StatusOf(profile, completion_status) ==
    Returned(completion_status.db,
             ProfileStatus(profile.ret.exists, completion_status.ret.isComplete,
                           completion_status.ret.missingFields, profile.ret, None))

\* get_profile_status once getUserProfile gave profile
StatusAfterProfile(u, profile) ==
    StatusOf(profile, getProfileCompletionStatus(profile.db, u))

\* WorkflowAgent.get_profile_status; storeUp is whether the store answers
get_profile_status(d, u, storeUp) ==
    IF ~storeUp
       THEN Returned(d, ProfileStatus(FALSE, FALSE, <<>>, None, Text("store unavailable")))
    ELSE StatusAfterProfile(u, getUserProfile(d, u))

\* the dict WorkflowAgent.process returns
WorkflowResponse(status, response, profile_status, error) ==
    [status |-> status, response |-> response, profile_status |-> profile_status,
     error |-> error]

\* a view handler that tells every user with a record that the profile is complete
ViewWithoutCompleteness(status) ==
    IF Truthy(status.error)
       THEN WorkflowResponse("error",
                             "There was an issue retrieving your profile information.",
                             status, Text("Error retrieving profile status"))
    ELSE WorkflowResponse("success",
            IF ~status.exists
               THEN "I see you haven't set up your profile yet. Would you like to create one now?"
            ELSE "Your profile is complete! Let me know if you'd like to view or update any information.",
            status, None)

\* WorkflowAgent._handle_view_profile
_handle_view_profile(status) ==
    IF Truthy(status.error)
       THEN WorkflowResponse("error",
                             "There was an issue retrieving your profile information.",
                             status, Text("Error retrieving profile status"))
    ELSE WorkflowResponse("success",
            IF ~status.exists
               THEN "I see you haven't set up your profile yet. Would you like to create one now?"
            ELSE IF ~status.is_complete
               THEN "Your profile is incomplete. The following information is missing: "
                    \o JoinComma(status.missing_fields)
                    \o ". Would you like to add this information?"
            ELSE "Your profile is complete! Let me know if you'd like to view or update any information.",
            status, None)

\* _update_profile: what the service call r leaves, any exception as a WorkflowError
AsWorkflowError(r) ==
    IF r.raised THEN Raised(r.db, "Failed to update profile: " \o r.ret)
    ELSE Returned(r.db, None)

\* WorkflowAgent._update_profile
_update_profile(d, u, data, action, storeUp, now, newId) ==
    IF ~storeUp THEN Raised(d, "Failed to update profile: store unavailable")
    ELSE IF action = "update_profile" THEN AsWorkflowError(updateUserProfile(d, u, data, now))
    ELSE IF action = "add_spouse" THEN AsWorkflowError(addSpouse(d, u, data))
    ELSE IF action = "add_child" THEN AsWorkflowError(addChild(d, u, data, newId))
    ELSE IF action = "update_child"
       THEN (IF HasKey(data, "childId") /\ data["childId"] # 0
                THEN AsWorkflowError(updateChild(d, u, data["childId"],
                                                 Without(data, "childId")))
             ELSE Raised(d, "Failed to update profile: Missing child ID for update operation"))
    ELSE Raised(d, "Failed to update profile: Unknown action: " \o action)

\* what WorkflowAgent.process leaves: the store, whether an exception left process,
\* the response, and whether a ProfileService write was called
Processed(d, raised, ret, wrote) == [db |-> d, raised |-> raised, ret |-> ret, wrote |-> wrote]

\* process after a successful write: the status is fetched again
ProcessRefetched(agent_response, new_status) ==
    Processed(new_status.db, FALSE,
              WorkflowResponse("success", agent_response.response, new_status.ret, None),
              TRUE)

\* process after _update_profile gave w
ProcessWritten(user_id, status, agent_response, w, storeUp) ==
    IF w.raised
       THEN Processed(w.db, FALSE,
                      WorkflowResponse("error", "An error occurred while processing your request.",
                                       status.ret, Text(w.ret)),
                      storeUp)
    ELSE ProcessRefetched(agent_response, get_profile_status(w.db, user_id, storeUp))

\* process after the extraction agent answered
ProcessExtracted(user_id, action, status, agent_response, storeUp, now, newId) ==
    IF agent_response.status = "success" /\ agent_response.data # None
       THEN ProcessWritten(user_id, status, agent_response,
                           _update_profile(status.db, user_id, agent_response.data,
                                           agent_response.action, storeUp, now, newId),
                           storeUp)
    ELSE Processed(status.db, FALSE,
                   WorkflowResponse(agent_response.status, agent_response.response,
                                    status.ret, agent_response.error),
                   FALSE)

\* process after the first status fetch
ProcessWithStatus(user_id, action, status, llm, storeUp, now, newId) ==
    IF action = "view"
       THEN Processed(status.db, FALSE, _handle_view_profile(status.ret), FALSE)
    ELSE ProcessExtracted(user_id, action, status, ProfileAgentProcess(action, llm, now),
                          storeUp, now, newId)

\* WorkflowAgent.process
process(d, workflow_data, llm, storeUp, now, newId) ==
    IF ~HasKey(workflow_data, "user_id")
       \* KeyError; the handler then reads user_id, which is unbound
       THEN Processed(d, TRUE, "UnboundLocalError", FALSE)
    ELSE ProcessWithStatus(workflow_data["user_id"],
                           IF HasKey(workflow_data, "action") THEN workflow_data["action"]
                           ELSE "view",
                           get_profile_status(d, workflow_data["user_id"], storeUp),
                           llm, storeUp, now, newId)

----------------------------------------------------------------------------
(* The router and the chat endpoint: main_agent.py, api.py *)

\* how many exchanges the router keeps
HistoryLimit == 5

\* the text of a model reply: a JSON object, a JSON number, or text that is no JSON
JsonText(obj) == [obj |-> obj]

NumberText(n) == [number |-> n]

PlainText(raw) == [raw |-> raw]

\* json.loads(response_text): a dict, an int, or JSONDecodeError
JsonLoads(response_text) ==
    IF "obj" \in DOMAIN response_text THEN Ok(response_text.obj)
    ELSE IF "number" \in DOMAIN response_text
       THEN Ok([py |-> "int", n |-> response_text.number])
    ELSE Fail("JSONDecodeError")

\* a history that stops taking exchanges once it is full
AppendUntilFull(history, message, response_text) ==
    IF Len(history) + 1 > HistoryLimit THEN history
    ELSE Append(history, <<message, response_text>>)

\* the chat history after the exchange (message, response_text): the last five
AppendExchange(history, message, response_text) ==
    IF Len(history) + 1 > HistoryLimit
       THEN Tail(Append(history, <<message, response_text>>))
    ELSE Append(history, <<message, response_text>>)

\* the dict MainAgent.process returns from its except handler
RouterError(e, user_id) == [workflow |-> "error", error |-> e, user_id |-> user_id]

valid_actions == {"update_profile", "add_spouse", "add_child", "view"}

WelcomeResponse ==
    "Welcome to ParentPal! I'm thrilled to have you with us. Let's get started on setting up your profile. This will help us tailor your experience and provide you with the most relevant information and suggestions. If you need any help along the way, just let me know!"

\* a router that defaults to onboarding only when the model names no action
EnsureActionNamed(response_data) ==
    IF response_data["workflow"] = "profile"
       /\ (~HasKey(response_data, "action") \/ response_data["action"] = "")
       THEN [k \in DOMAIN response_data \cup {"action", "context", "response"} |->
                IF k = "action" THEN "update_profile"
                ELSE IF k = "context" THEN "New user sign-in"
                ELSE IF k = "response" THEN WelcomeResponse
                ELSE response_data[k]]
    ELSE response_data

\* MainAgent.process, the handling of a profile workflow result: an action that is
\* missing, empty or not a valid one becomes update_profile with the welcome
EnsureValidAction(response_data) ==
    IF response_data["workflow"] = "profile"
       /\ (~HasKey(response_data, "action")
           \/ response_data["action"] = ""
           \/ response_data["action"] \notin valid_actions)
       THEN [k \in DOMAIN response_data \cup {"action", "context", "response"} |->
                IF k = "action" THEN "update_profile"
                ELSE IF k = "context" THEN "New user sign-in"
                ELSE IF k = "response" THEN WelcomeResponse
                ELSE response_data[k]]
    ELSE response_data

\* MainAgent.process once response_data is parsed and carries the user_id
RoutedResult(response_data, user_id) ==
    IF ~HasKey(response_data, "workflow") THEN RouterError("'workflow'", user_id)
    ELSE EnsureValidAction(response_data)

\* MainAgent.process once json.loads gave parsed: an int takes no item assignment
ParsedResult(response_text, parsed, user_id) ==
    IF parsed.ok /\ "py" \in DOMAIN parsed.val
       THEN RouterError("'int' object does not support item assignment", user_id)
    ELSE IF parsed.ok THEN RoutedResult(("user_id" :> user_id) @@ parsed.val, user_id)
    ELSE RoutedResult([workflow |-> "general", response |-> response_text.raw,
                       user_id |-> user_id], user_id)

\* MainAgent.process: the history it leaves and the dict it returns; llm is what the
\* chain does: it raises, or replies with a text
MainAgentProcess(history, user_id, message, llm) ==
    IF llm.kind = "raise"
       THEN [history |-> history, ret |-> RouterError("model call failed", user_id)]
    ELSE [history |-> AppendExchange(history, message, llm.text),
          ret |-> ParsedResult(llm.text, JsonLoads(llm.text), user_id)]

\* the workflow_data chat_endpoint hands to the coordinator
WorkflowDataOf(main_response, user_id) ==
    [user_id |-> user_id,
     action |-> IF HasKey(main_response, "action") THEN main_response["action"] ELSE "view"]

\* chat_endpoint once the router answered: the store it leaves and the body it returns
ChatRouted(d, main_response, user_id, llm, storeUp, now, newId) ==
    IF main_response["workflow"] = "profile"
       THEN process(d, WorkflowDataOf(main_response, user_id), llm, storeUp, now, newId)
    ELSE Processed(d, FALSE,
                   [response |-> IF HasKey(main_response, "response")
                                    THEN Text(main_response["response"]) ELSE None],
                   FALSE)

----------------------------------------------------------------------------
(* The requests the environment makes *)

Al == Str(<<"Al">>)

Bo == Str(<<"Bo">>)

Di == Str(<<"Di">>)

Adult == DateStr(3, 15, 1980)

Minor == DateStr(1, 15, 2019)

Nineteen == DateStr(1, 15, 2007)

\* profileData of the direct updateUserProfile calls
UserPayloads ==
    { [name |-> [firstName |-> Str(<<" ", "Al">>), lastName |-> Bo],
       dateOfBirth |-> Adult, address |-> Str(<<"Main", ",", "Town", " ">>)],
      \* a validated UserProfile dump, as WorkflowAgent._update_profile passes it
      [name |-> [firstName |-> Al, middleName |-> None, lastName |-> Bo],
       dateOfBirth |-> Adult, address |-> Str(<<"Main", ",", "Town">>),
       profileCreatedAt |-> 0, profileUpdatedAt |-> 0, profileComplete |-> FALSE],
      [fullName |-> Str(<<"Al", " ", "Cy", " ", "Bo">>)],
      [fullName |-> Str(<<"Al">>)],
      [dateOfBirth |-> Str(<<>>)],
      [address |-> Str(<<"Main">>)] }

\* spouseData of the direct addSpouse calls
SpousePayloads ==
    { [name |-> [firstName |-> Di, lastName |-> Bo], dateOfBirth |-> Adult],
      [fullName |-> Str(<<"Di", " ", "Bo">>)],
      [name |-> [firstName |-> Str(<<" ">>), lastName |-> Bo]] }

\* childData of the direct addChild calls
ChildPayloads ==
    { [name |-> [firstName |-> Str(<<"Cy", " ">>), lastName |-> Bo], dateOfBirth |-> Minor,
       interests |-> <<"sports">>],
      [fullName |-> Str(<<"Cy", " ", "Bo">>)],
      [name |-> [firstName |-> Str(<<"Cy">>), lastName |-> Bo], dateOfBirth |-> Nineteen] }

\* childData of the direct updateChild calls
ChildUpdates ==
    { [dateOfBirth |-> Minor], [dateOfBirth |-> Nineteen] }

\* the action values a coordinator request carries
Actions == {"view", "update_profile", "add_spouse", "add_child", "update_child", "delete_profile"}

\* the arguments of the model's function call
ExtractedArgs ==
    { [firstName |-> Al, lastName |-> Bo, dateOfBirth |-> Adult,
       address |-> Str(<<"Main", ",", "Town">>)],
      [firstName |-> Di],
      [firstName |-> Str(<<"Cy">>), lastName |-> Bo, dateOfBirth |-> Minor],
      [firstName |-> Str(<<"Cy">>), lastName |-> Bo, dateOfBirth |-> Nineteen] }

\* what the model call of the extraction agent can do
LlmOutcomes ==
    { [kind |-> "raise"], [kind |-> "text"] }
    \cup { [kind |-> "function_call", args |-> a] : a \in ExtractedArgs }

\* the workflow_data of a coordinator request
WorkflowData ==
    { [user_id |-> u, action |-> a] : u \in Callers, a \in Actions }
    \cup { [user_id |-> u] : u \in Callers }
    \cup { [action |-> a] : a \in {"view", "update_profile"} }

\* whether process gets as far as the model call
CallsModel(workflow_data) ==
    /\ HasKey(workflow_data, "user_id")
    /\ HasKey(workflow_data, "action")
    /\ workflow_data["action"] # "view"

\* the arguments of the model's function call that name a child to update
ChildUpdateArgs ==
    { [childId |-> c, dateOfBirth |-> Minor] : c \in ChildIds }

\* the outcomes of the model call a request can meet: one stand-in when it makes none
OutcomesFor(workflow_data) ==
    IF ~CallsModel(workflow_data) THEN {[kind |-> "none"]}
    ELSE IF workflow_data["action"] = "update_child"
       THEN LlmOutcomes \cup { [kind |-> "function_call", args |-> a] : a \in ChildUpdateArgs }
    ELSE LlmOutcomes

\* what a user types
Messages == {"hi"}

\* how many exchanges a run makes
MaxExchanges == 2

\* the replies the router's model gives: text that is no JSON, a bare number, a general
\* answer, a profile answer with its action absent, empty, valid or invalid, an answer
\* naming no workflow
RouterReplies ==
    {PlainText("Hello!"),
     NumberText(42),
     JsonText([workflow |-> "general", response |-> "Hi"]),
     JsonText([response |-> "Hi"]),
     JsonText([workflow |-> "profile", context |-> "Profile", response |-> "Sure"])}
    \cup { JsonText([workflow |-> "profile", action |-> a, context |-> "Profile",
                     response |-> "Sure"]) :
              a \in {"", "view", "update_profile", "add_spouse", "add_child", "delete_profile"} }

RouterOutcomes == {[kind |-> "raise"]} \cup { [kind |-> "reply", text |-> c] : c \in RouterReplies }

\* the profileData of updateUserProfile calls that run at the same time: a whole
\* profile, a new address, a new date of birth
RacePayloads ==
    { [name |-> [firstName |-> Al, lastName |-> Bo],
       dateOfBirth |-> Adult, address |-> Str(<<"Main", ",", "Town">>)],
      [address |-> Str(<<"Elm", ",", "City">>)],
      [dateOfBirth |-> DateStr(4, 1, 1990)] }

\* the user the calls that run at the same time are for
RaceUser == "u1"

\* how many calls each worker serves
MaxRaceCalls == 2

\* the months and days a two-digit field is drawn from: 0 up to these
MaxMonth == 13

MaxDay == 32

\* the years a date of birth is drawn from: year 0, the years around the 120 year
\* ceiling, the years around a child's eighteenth birthday, this year and the next
BirthYears ==
    {0} \cup ((Today.y - 122)..(Today.y - 119)) \cup ((Today.y - 19)..(Today.y - 17))
        \cup {Today.y, Today.y + 1}

\* the model classes a date of birth is given to
Variants == {"UserProfile", "SpouseProfile", "ChildProfile"}

\* the keyword arguments of a construction whose other fields are valid
PersonWith(dob) == [name |-> [firstName |-> Al, lastName |-> Bo], dateOfBirth |-> dob]

\* the requests two users make side by side: a profile that validates and one that
\* does not, a spouse, a child, a change of a child, a view and an add_child request
SharedUserPayloads ==
    { [name |-> [firstName |-> Al, lastName |-> Bo],
       dateOfBirth |-> Adult, address |-> Str(<<"Main", ",", "Town">>)],
      [address |-> Str(<<"Main">>)] }

SharedSpousePayloads == { [name |-> [firstName |-> Di, lastName |-> Bo], dateOfBirth |-> Adult] }

SharedChildPayloads ==
    { [name |-> [firstName |-> Str(<<"Cy">>), lastName |-> Bo], dateOfBirth |-> Minor] }

SharedChildUpdates == { [dateOfBirth |-> Minor] }

SharedWorkflowData == { [user_id |-> u, action |-> a] : u \in Users, a \in {"view", "add_child"} }

\* how many children a user has side by side with another user
MaxSharedChildren == 1

MaxConversation == 7

\* what the router's model does in a long conversation
ConversationOutcomes ==
    {[kind |-> "raise"],
     [kind |-> "reply", text |-> PlainText("Hello!")],
     [kind |-> "reply", text |-> JsonText([workflow |-> "general", response |-> "Hi"])]}

\* what the profile agent's model can do for the request the router's answer leads to
AgentOutcomesFor(main_response, user_id) ==
    IF main_response["workflow"] = "profile"
       THEN OutcomesFor(WorkflowDataOf(main_response, user_id))
    ELSE {[kind |-> "none"]}

\* the ids the store can generate for a new child document of u
FreeIds(u) == ChildIds \ DOMAIN db.children[u]

----------------------------------------------------------------------------
(* The state machine: one call at a time; last is the call being answered *)

Idle == [op |-> "idle"]

\* the server processes that serve updateUserProfile calls at the same time
Workers == {"w1", "w2"}

\* a worker that has not been called yet; wrote: its call has written, latest: no
\* other call has written since, raced: it had read when another call wrote, or
\* wrote when another call had read
NotCalled ==
    [pc |-> "idle", n |-> 0, profileData |-> <<>>, current_data |-> <<>>,
     wrote |-> FALSE, latest |-> FALSE, raced |-> FALSE, raised |-> FALSE]

Init ==
    /\ db = [users |-> <<>>, spouse |-> [u \in Users |-> <<>>],
             children |-> [u \in Users |-> <<>>]]
    /\ clock = 1
    /\ last = Idle
    /\ chat_history = <<>>
    /\ exchanges = <<>>
    /\ calls = [p \in Workers |-> NotCalled]

\* a direct ProfileService.updateUserProfile call
UpdateUserProfile(u, data) ==
    /\ last = Idle
    /\ clock < MaxClock
    /\ \E r \in {updateUserProfile(db, u, data, clock)} :
          /\ db' = r.db
          /\ clock' = IF HandleName(data).ok THEN clock + 1 ELSE clock
          /\ last' = [op |-> "updateUserProfile", user |-> u, data |-> data,
                      raised |-> r.raised, ret |-> r.ret]
    /\ UNCHANGED <<chat_history, exchanges, calls>>

\* a direct ProfileService.addSpouse call; before is the spouse it found
AddSpouse(u, data) ==
    /\ last = Idle
    /\ \E r \in {addSpouse(db, u, data)} :
          /\ db' = r.db
          /\ last' = [op |-> "addSpouse", user |-> u, data |-> data,
                      before |-> SpouseData(db.spouse[u]),
                      raised |-> r.raised, ret |-> r.ret]
    /\ UNCHANGED <<clock, chat_history, exchanges, calls>>

\* a direct ProfileService.addChild call; before is the children it found
AddChild(u, data, newId) ==
    /\ last = Idle
    /\ \E r \in {addChild(db, u, data, newId)} :
          /\ db' = r.db
          /\ last' = [op |-> "addChild", user |-> u, data |-> data,
                      before |-> db.children[u],
                      raised |-> r.raised, ret |-> r.ret]
    /\ UNCHANGED <<clock, chat_history, exchanges, calls>>

\* a direct ProfileService.updateChild call
UpdateChild(u, childId, data) ==
    /\ last = Idle
    /\ \E r \in {updateChild(db, u, childId, data)} :
          /\ db' = r.db
          /\ last' = [op |-> "updateChild", user |-> u, childId |-> childId,
                      data |-> data, raised |-> r.raised, ret |-> r.ret]
    /\ UNCHANGED <<clock, chat_history, exchanges, calls>>

\* a direct ProfileService.getUserProfile call
GetUserProfile(u) ==
    /\ last = Idle
    /\ \E r \in {getUserProfile(db, u)} :
          /\ db' = r.db
          /\ last' = [op |-> "getUserProfile", user |-> u, raised |-> FALSE,
                      ret |-> r.ret]
    /\ UNCHANGED <<clock, chat_history, exchanges, calls>>

\* a direct ProfileService.getProfileCompletionStatus call
GetProfileCompletionStatus(u) ==
    /\ last = Idle
    /\ \E r \in {getProfileCompletionStatus(db, u)} :
          /\ db' = r.db
          /\ last' = [op |-> "getProfileCompletionStatus", user |-> u, raised |-> FALSE,
                      ret |-> r.ret]
    /\ UNCHANGED <<clock, chat_history, exchanges, calls>>

\* a WorkflowAgent.process request
Process(workflow_data, llm, storeUp, newId) ==
    /\ last = Idle
    /\ \E r \in {process(db, workflow_data, llm, storeUp, clock, newId)} :
          /\ r.wrote => (clock < MaxClock /\ newId # 0)
          /\ db' = r.db
          /\ clock' = IF r.wrote THEN clock + 1 ELSE clock
          /\ last' = [op |-> "process", workflow_data |-> workflow_data, llm |-> llm,
                      storeUp |-> storeUp, raised |-> r.raised, ret |-> r.ret]
    /\ UNCHANGED <<chat_history, exchanges, calls>>

\* the caller takes the answer; the next call can start
Respond ==
    /\ last # Idle
    /\ last' = Idle
    /\ UNCHANGED <<db, clock, chat_history, exchanges, calls>>

Next ==
    \/ \E u \in Callers, data \in UserPayloads : UpdateUserProfile(u, data)
    \/ \E u \in Callers, data \in SpousePayloads : AddSpouse(u, data)
    \/ \E u \in Callers, data \in ChildPayloads : \E newId \in FreeIds(u) :
          AddChild(u, data, newId)
    \/ \E u \in Callers, childId \in ChildIds, data \in ChildUpdates :
          UpdateChild(u, childId, data)
    \/ \E u \in Callers : GetUserProfile(u)
    \/ \E u \in Callers : GetProfileCompletionStatus(u)
    \/ \E workflow_data \in WorkflowData, storeUp \in BOOLEAN :
          \E llm \in OutcomesFor(workflow_data) :
             \E newId \in (IF HasKey(workflow_data, "user_id")
                              /\ FreeIds(workflow_data["user_id"]) # {}
                           THEN FreeIds(workflow_data["user_id"]) ELSE {0}) :
                Process(workflow_data, llm, storeUp, newId)
    \/ Respond

Spec == Init /\ [][Next]_vars

\* the record of every exchange the router's model replied to, and who asked
Logged(log, user_id, message, llm) ==
    IF llm.kind = "reply"
       THEN Append(log, [user |-> user_id, message |-> message, reply |-> llm.text])
    ELSE log

\* MainAgent.process answers the request
MainAnswered(user_id, message, llm) ==
    /\ last = Idle
    /\ \E m \in {MainAgentProcess(chat_history, user_id, message, llm)} :
          /\ chat_history' = m.history
          /\ last' = [op |-> "MainAgent.process", user |-> user_id, message |-> message,
                      llm |-> llm, raised |-> FALSE, ret |-> m.ret]
    /\ exchanges' = Logged(exchanges, user_id, message, llm)
    /\ UNCHANGED <<db, clock, calls>>

\* a MainAgent.process request
MainProcess(user_id, message, llm) ==
    /\ Len(chat_history) < MaxExchanges
    /\ MainAnswered(user_id, message, llm)

\* chat_endpoint once the router left m and the coordinator, if called, left r
ChatAnswered(user_id, message, m, r) ==
    /\ r.wrote => clock < MaxClock
    /\ db' = r.db
    /\ clock' = IF r.wrote THEN clock + 1 ELSE clock
    /\ chat_history' = m.history
    /\ last' = [op |-> "chat_endpoint", user |-> user_id, message |-> message,
                main_response |-> m.ret, raised |-> r.raised, ret |-> r.ret]

\* a POST /chat request
ChatEndpoint(user_id, message, routerLlm) ==
    /\ last = Idle
    /\ Len(chat_history) < MaxExchanges
    /\ \E m \in {MainAgentProcess(chat_history, user_id, message, routerLlm)} :
          \E llm \in AgentOutcomesFor(m.ret, user_id), storeUp \in BOOLEAN :
             \E newId \in (IF FreeIds(user_id) # {} THEN FreeIds(user_id) ELSE {0}) :
                \E r \in {ChatRouted(db, m.ret, user_id, llm, storeUp, clock, newId)} :
                   ChatAnswered(user_id, message, m, r)
    /\ exchanges' = Logged(exchanges, user_id, message, routerLlm)
    /\ UNCHANGED calls

RouterNext ==
    \/ \E u \in Callers, message \in Messages, llm \in RouterOutcomes :
          MainProcess(u, message, llm)
    \/ \E u \in Callers, message \in Messages, llm \in RouterOutcomes :
          ChatEndpoint(u, message, llm)
    \/ Respond

RouterSpec == Init /\ [][RouterNext]_vars

\* a MainAgent.process request in a long conversation of two users
LongMainProcess(user_id, message, llm) ==
    /\ Len(exchanges) < MaxConversation
    /\ MainAnswered(user_id, message, llm)

HistoryNext ==
    \/ \E u \in Users, message \in Messages, llm \in ConversationOutcomes :
          LongMainProcess(u, message, llm)
    \/ Respond

HistorySpec == Init /\ [][HistoryNext]_vars

\* the model class variant is constructed with the date of birth dob
Constructed(variant, dob, now) ==
    IF variant = "UserProfile"
       THEN UserProfile(PersonWith(dob) @@ [address |-> Str(<<"Main", ",", "Town">>)], now)
    ELSE IF variant = "SpouseProfile" THEN SpouseProfile(PersonWith(dob))
    ELSE ChildProfile(PersonWith(dob))

\* a construction of a profile variant
Construct(variant, m, d, y) ==
    /\ last = Idle
    /\ last' = [op |-> "construct", variant |-> variant, m |-> m, d |-> d, y |-> y,
                raised |-> ~Constructed(variant, DateStr(m, d, y), clock).ok,
                ret |-> Constructed(variant, DateStr(m, d, y), clock)]
    /\ UNCHANGED <<db, clock, chat_history, exchanges, calls>>

ModelNext ==
    \/ \E variant \in Variants, m \in 0..MaxMonth, d \in 0..MaxDay, y \in BirthYears :
          Construct(variant, m, d, y)
    \/ Respond

ModelSpec == Init /\ [][ModelNext]_vars

\* updateUserProfile, lines 100 to 117: the name handling and the update timestamp
Begin(w, data) ==
    /\ calls[w].pc \in {"idle", "done"}
    /\ calls[w].n < MaxRaceCalls
    /\ calls' = [calls EXCEPT ![w] =
                    IF ~HandleName(data).ok
                       THEN [NotCalled EXCEPT !.pc = "done", !.n = calls[w].n + 1,
                                              !.latest = calls[w].latest, !.raised = TRUE]
                    ELSE [pc |-> "stamped", n |-> @.n + 1,
                          profileData |-> ("profileUpdatedAt" :> clock) @@ HandleName(data).val,
                          current_data |-> <<>>, wrote |-> FALSE, latest |-> @.latest,
                          raced |-> FALSE, raised |-> FALSE]]
    /\ UNCHANGED <<db, clock, last, chat_history, exchanges>>

\* updateUserProfile, lines 118 and 119: user_ref.get().exists
CheckExists(w) ==
    /\ calls[w].pc = "stamped"
    /\ calls' = [calls EXCEPT ![w] =
                    IF RaceUser \in DOMAIN db.users THEN [@ EXCEPT !.pc = "created"]
                    ELSE [@ EXCEPT !.pc = "creating",
                                   !.profileData = ("profileCreatedAt" :> clock) @@ @]]
    /\ UNCHANGED <<db, clock, last, chat_history, exchanges>>

\* updateUserProfile, line 120: _create_profile_structure sets the initial document
Create(w) ==
    /\ calls[w].pc = "creating"
    /\ db' = _create_profile_structure(db, RaceUser, clock)
    /\ calls' = [calls EXCEPT ![w].pc = "created"]
    /\ UNCHANGED <<clock, last, chat_history, exchanges>>

\* updateUserProfile, line 123: current_data = user_ref.get().to_dict() or {}
Read(w) ==
    /\ calls[w].pc = "created"
    /\ calls' = [calls EXCEPT ![w].pc = "read",
                              ![w].current_data = IF RaceUser \in DOMAIN db.users
                                                     THEN db.users[RaceUser] ELSE <<>>]
    /\ UNCHANGED <<db, clock, last, chat_history, exchanges>>

\* updateUserProfile, lines 124 and 125: UserProfile(**{**current_data, **profileData})
ValidatedBy(w) == UserProfile(calls[w].profileData @@ calls[w].current_data, clock)

\* one of the workers ws has read the document and not yet written
HasRead(ws) == \E v \in ws : calls[v].pc = "read"

\* updateUserProfile, lines 124 to 128: validate, then user_ref.set(..., merge=True);
\* a validation error leaves the call
Write(w) ==
    /\ calls[w].pc = "read"
    /\ IF ValidatedBy(w).ok
          THEN /\ db' = SetUserMerge(db, RaceUser, ValidatedBy(w).val)
               /\ calls' = [v \in Workers |->
                               IF v = w
                                  THEN [calls[v] EXCEPT !.pc = "written", !.wrote = TRUE,
                                                        !.latest = TRUE,
                                                        !.raced = @ \/ HasRead(Workers \ {w})]
                               ELSE [calls[v] EXCEPT !.latest = FALSE,
                                                     !.raced = @ \/ calls[v].pc = "read"]]
       ELSE /\ db' = db
            /\ calls' = [calls EXCEPT ![w].pc = "done", ![w].raised = TRUE]
    /\ UNCHANGED <<clock, last, chat_history, exchanges>>

\* updateUserProfile, lines 131 to 133: updateProfileCompletionStatus, then the return
Complete(w) ==
    /\ calls[w].pc = "written"
    /\ db' = updateProfileCompletionStatus(db, RaceUser).db
    /\ calls' = [calls EXCEPT ![w].pc = "done"]
    /\ UNCHANGED <<clock, last, chat_history, exchanges>>

RaceNext ==
    \/ \E w \in Workers, data \in RacePayloads : Begin(w, data)
    \/ \E w \in Workers : CheckExists(w)
    \/ \E w \in Workers : Create(w)
    \/ \E w \in Workers : Read(w)
    \/ \E w \in Workers : Write(w)
    \/ \E w \in Workers : Complete(w)

RaceSpec == Init /\ [][RaceNext]_vars

\* the ids the store can generate for a child of u when two users work side by side
SharedFreeIds(u) == (1..MaxSharedChildren) \ DOMAIN db.children[u]

\* the requests of two users, one call at a time in any order
TwoUserNext ==
    \/ \E u \in Users, data \in SharedUserPayloads : UpdateUserProfile(u, data)
    \/ \E u \in Users, data \in SharedSpousePayloads : AddSpouse(u, data)
    \/ \E u \in Users, data \in SharedChildPayloads : \E newId \in SharedFreeIds(u) :
          AddChild(u, data, newId)
    \/ \E u \in Users, childId \in 1..MaxSharedChildren, data \in SharedChildUpdates :
          UpdateChild(u, childId, data)
    \/ \E u \in Users : GetUserProfile(u)
    \/ \E u \in Users : GetProfileCompletionStatus(u)
    \/ \E workflow_data \in SharedWorkflowData, storeUp \in BOOLEAN :
          \E llm \in OutcomesFor(workflow_data) :
             \E newId \in (IF SharedFreeIds(workflow_data["user_id"]) # {}
                           THEN SharedFreeIds(workflow_data["user_id"]) ELSE {0}) :
                Process(workflow_data, llm, storeUp, newId)
    \/ Respond

TwoUserSpec == Init /\ [][TwoUserNext]_vars

----------------------------------------------------------------------------
(* The coordinator's contract: C1 to C5 *)

\* the step is the coordinator answering a request for a mutating action
MutatingRequest ==
    /\ last = Idle
    /\ last'.op = "process"
    /\ HasKey(last'.workflow_data, "user_id")
    /\ HasKey(last'.workflow_data, "action")
    /\ last'.workflow_data["action"] \in DOMAIN required_fields

\* the required fields of the request's action the model's function call left out
MissingOfRequest ==
    MissingOf(required_fields[last'.workflow_data["action"]], last'.llm.args)

\* the Domain Model's verdict on the arguments of the model's function call
VerdictOfRequest ==
    ValidateExtracted(last'.workflow_data["action"], last'.llm.args, clock)

\* the record the request's action is to have written is in the store after the step
WrittenByRequest ==
    LET u == last'.workflow_data["user_id"]
        action == last'.workflow_data["action"]
    IN  IF action = "update_profile"
           THEN /\ u \in DOMAIN db'.users
                /\ Get(db'.users[u], "address") = VerdictOfRequest.val.address
        ELSE IF action = "add_spouse"
           THEN /\ SpouseKey \in DOMAIN db'.spouse[u]
                /\ db'.spouse[u][SpouseKey].name = VerdictOfRequest.val.name
        ELSE Cardinality(DOMAIN db'.children[u]) = Cardinality(DOMAIN db.children[u]) + 1

\* C1: a request for update_profile, add_spouse or add_child whose model call returns
\* every required field and whose data passes validation makes the matching store
\* write, fetches the completion status again and answers success with that status
C1_WriteThenRefreshedSuccess ==
    [][(/\ MutatingRequest
        /\ last'.storeUp
        /\ last'.llm.kind = "function_call"
        /\ MissingOfRequest = <<>>
        /\ VerdictOfRequest.ok)
       => (/\ last'.ret.status = "success"
           /\ WrittenByRequest
           /\ last'.ret.profile_status
                 = get_profile_status(db', last'.workflow_data["user_id"], TRUE).ret)]_vars

\* C2: a request for update_profile, add_spouse or add_child whose model call leaves a
\* required field absent or empty is answered needs_input, naming exactly the missing
\* required fields, and the store is unchanged
C2_MissingFieldsNeedInput ==
    [][(/\ MutatingRequest
        /\ last'.llm.kind = "function_call"
        /\ MissingOfRequest # <<>>)
       => (/\ last'.ret.status = "needs_input"
           /\ last'.ret.response = "I need more information. Could you provide your "
                                      \o JoinComma(MissingOfRequest) \o "?"
           /\ db' = db)]_vars

\* C3: a request whose extracted fields are all present but fail validation is answered
\* error, carrying the validation error's detail, and the store is unchanged
C3_InvalidDataIsError ==
    [][(/\ MutatingRequest
        /\ last'.llm.kind = "function_call"
        /\ MissingOfRequest = <<>>
        /\ ~VerdictOfRequest.ok)
       => (/\ last'.ret.status = "error"
           /\ last'.ret.error = Text(VerdictOfRequest.err)
           /\ db' = db)]_vars

\* C4: a request whose model call returns no function call is answered needs_input with
\* the clarification prompt and the completion status fetched before the model call,
\* and the store is unchanged
C4_NoFunctionCallNeedsInput ==
    [][(/\ last = Idle
        /\ last'.op = "process"
        /\ last'.llm.kind = "text")
       => (/\ last'.ret.status = "needs_input"
           /\ last'.ret.response
                 = "I couldn't extract the necessary information. Could you provide more details?"
           /\ last'.ret.profile_status
                 = get_profile_status(db, last'.workflow_data["user_id"], last'.storeUp).ret
           /\ db' = db)]_vars

\* C5: no exception leaves WorkflowAgent.process: every request, one without user_id
\* included, is answered with a status among success, needs_input and error, a response
\* and a profile_status
C5_NoExceptionCrosses ==
    last.op = "process"
    => (/\ ~last.raised
        /\ last.ret.status \in {"success", "needs_input", "error"}
        /\ DOMAIN last.ret = {"status", "response", "profile_status", "error"})

----------------------------------------------------------------------------
(* The store's contract: C6 to C10 *)

\* the call being answered is a mutating store operation that succeeded
MutationSucceeded ==
    /\ last.op \in {"updateUserProfile", "addSpouse", "addChild", "updateChild"}
    /\ ~last.raised
    /\ last.ret.success

\* C6: after a mutating store operation succeeds on a user whose record stores
\* profileComplete, the stored boolean is the isComplete that getCompletionStatus
\* computes in the resulting state
C6_StoredFlagIsComputedFlag ==
    (/\ MutationSucceeded
     /\ last.user \in DOMAIN db.users
     /\ HasKey(db.users[last.user], "profileComplete"))
    => db.users[last.user]["profileComplete"]
          = getProfileCompletionStatus(db, last.user).ret.isComplete

\* whether field f of the name of the record p is absent
NamePartAbsent(p, f) ==
    IF HasKey(p, "name") THEN ~Truthy(Get(p["name"], f)) ELSE TRUE

\* the absent ones of firstName, lastName, dateOfBirth of the record p, in that order
AbsentOfPerson(p, prefix) ==
    (IF NamePartAbsent(p, "firstName") THEN <<prefix \o "firstName">> ELSE <<>>)
    \o (IF NamePartAbsent(p, "lastName") THEN <<prefix \o "lastName">> ELSE <<>>)
    \o (IF ~Truthy(Get(p, "dateOfBirth")) THEN <<prefix \o "dateOfBirth">> ELSE <<>>)

\* the absent fields of the children with the ids ids, numbered from i on
RECURSIVE AbsentOfChildren(_, _, _)
AbsentOfChildren(docs, ids, i) ==
    IF ids = <<>> THEN <<>>
    ELSE AbsentOfPerson(docs[Head(ids)], "child_" \o ToString(i) \o "_")
         \o AbsentOfChildren(docs, Tail(ids), i + 1)

\* the ordered list of absent fields of the stored profile graph of an existing user u
AbsentFields(u) ==
    AbsentOfPerson(db.users[u], "")
    \o (IF ~Truthy(Get(db.users[u], "address")) THEN <<"address">> ELSE <<>>)
    \o (IF DOMAIN db.spouse[u] # {}
           THEN AbsentOfPerson(SpouseData(db.spouse[u]), "spouse_") ELSE <<>>)
    \o AbsentOfChildren(db.children[u], IdsInOrder(DOMAIN db.children[u]), 1)

\* C7: getCompletionStatus answers ["profile"] when there is no user record, else the
\* absent fields in the order user firstName, lastName, dateOfBirth, address, then those
\* of the spouse if there is one, then those of each child in store order, and
\* isComplete exactly when that list is empty
C7_MissingFieldsInOrder ==
    last.op = "getProfileCompletionStatus"
    => IF last.user \notin DOMAIN db.users
          THEN last.ret = [isComplete |-> FALSE, missingFields |-> <<"profile">>]
       ELSE last.ret = [isComplete |-> AbsentFields(last.user) = <<>>,
                        missingFields |-> AbsentFields(last.user)]

\* C8: a user record comes into existence only in a successful updateUser, and an
\* updateUser that raises leaves the store unchanged
C8_OnlyUpdateUserCreates ==
    [][\A u \in Users :
          /\ (u \notin DOMAIN db.users /\ u \in DOMAIN db'.users)
                => (last'.op = "updateUserProfile" /\ ~last'.raised)
          /\ (last = Idle /\ last'.op = "updateUserProfile" /\ last'.raised)
                => db' = db]_vars

\* the store d with every profileUpdatedAt left out
WithoutUpdatedAt(d) ==
    [d EXCEPT !.users = [u \in DOMAIN @ |-> Without(@[u], "profileUpdatedAt")]]

\* C9: once updateUser has succeeded, applying it again with the same fields succeeds
\* and leaves the persisted profile graph as it is, except for profileUpdatedAt
C9_UpdateUserIdempotent ==
    (last.op = "updateUserProfile" /\ ~last.raised)
    => /\ ~updateUserProfile(db, last.user, last.data, clock).raised
       /\ WithoutUpdatedAt(updateUserProfile(db, last.user, last.data, clock).db)
             = WithoutUpdatedAt(db)

\* C10: a user has at most one spouse record, under the key "current"; after addSpouse
\* succeeds it holds that call's validated data, whatever spouse was there before, and
\* after addSpouse fails it is the spouse that was there before
C10_OneSpouseHoldingLatest ==
    /\ \A u \in Users : DOMAIN db.spouse[u] \subseteq {"current"}
    /\ (last.op = "addSpouse" /\ ~last.raised)
          => /\ DOMAIN db.spouse[last.user] = {"current"}
             /\ db.spouse[last.user]["current"]
                   = SpouseProfile(HandleName(last.data).val).val
    /\ (last.op = "addSpouse" /\ last.raised)
          => SpouseData(db.spouse[last.user]) = last.before

\* C10 witness: addSpouse has succeeded for a user who had a spouse with other data,
\* and the one record holds the new data
C10_SpouseOverwritten ==
    /\ last.op = "addSpouse"
    /\ ~last.raised
    /\ last.before # None
    /\ last.before # db.spouse[last.user]["current"]
    /\ Cardinality(DOMAIN db.spouse[last.user]) = 1

----------------------------------------------------------------------------
(* The store's contract: C11 to C13 *)

\* C11: when addSpouse succeeds on a user who has a spouse record and the call supplies
\* no dateOfBirth, the stored spouse keeps the dateOfBirth it had before the call
C11_UnsuppliedFieldKept ==
    (/\ last.op = "addSpouse"
     /\ ~last.raised
     /\ last.before # None
     /\ ~HasKey(last.data, "dateOfBirth"))
    => db.spouse[last.user][SpouseKey].dateOfBirth = last.before.dateOfBirth

\* C12: a successful addChild creates exactly one child record, under an id no child of
\* the user had, leaves the children that were there unchanged, and on return the
\* childrenCount stored on the user record is the number of child records of the user
C12_OneNewChildCounted ==
    (last.op = "addChild" /\ ~last.raised)
    => /\ last.ret.childId \notin DOMAIN last.before
       /\ DOMAIN db.children[last.user] = DOMAIN last.before \cup {last.ret.childId}
       /\ \A c \in DOMAIN last.before : db.children[last.user][c] = last.before[c]
       /\ last.user \in DOMAIN db.users
       /\ HasKey(db.users[last.user], "childrenCount")
       /\ db.users[last.user]["childrenCount"] = Cardinality(DOMAIN db.children[last.user])

\* C12 witness: addChild has succeeded for a user who already had a child, and the
\* stored count is two
C12_SecondChildAdded ==
    /\ last.op = "addChild"
    /\ ~last.raised
    /\ DOMAIN last.before # {}
    /\ last.user \in DOMAIN db.users
    /\ HasKey(db.users[last.user], "childrenCount")
    /\ db.users[last.user]["childrenCount"] = 2

\* the payload the coordinator's update_child path passes for the updateChild call of
\* the step: the child's fields and the childId
UpdateChildPayload == ("childId" :> last'.childId) @@ last'.data

\* C13: updateChild on a childId the user does not have leaves the store unchanged and
\* reports not found, and the coordinator's update_child path, given that childId,
\* observes a failure; on a childId the user has, the fields are merged into the stored
\* record, the whole is validated as a ChildProfile and stored
C13_UpdateChildNotFoundObserved ==
    [][(last = Idle /\ last'.op = "updateChild")
       => IF last'.childId \notin DOMAIN db.children[last'.user]
             THEN /\ db' = db
                  /\ (last'.raised \/ ~last'.ret.success)
                  /\ _update_profile(db, last'.user, UpdateChildPayload, "update_child",
                                     TRUE, clock, 0).raised
          ELSE ChildProfile(last'.data @@ db.children[last'.user][last'.childId]).ok
                  => /\ ~last'.raised
                     /\ db'.children[last'.user][last'.childId]
                           = ChildProfile(last'.data
                                          @@ db.children[last'.user][last'.childId]).val]_vars

----------------------------------------------------------------------------
(* The coordinator's contract: C14 to C18 *)

\* the step is the coordinator answering a request for action with a function call
FunctionCallRequest(action) ==
    /\ last = Idle
    /\ last'.op = "process"
    /\ HasKey(last'.workflow_data, "user_id")
    /\ HasKey(last'.workflow_data, "action")
    /\ last'.workflow_data["action"] = action
    /\ last'.llm.kind = "function_call"

\* the stored child the request's childId names, with the request's other fields merged in
MergedChildOfRequest ==
    Without(last'.llm.args, "childId")
    @@ db.children[last'.workflow_data["user_id"]][last'.llm.args["childId"]]

\* C14: an update_child request whose extracted payload carries the childId of a child
\* of the user and validates is served by updateChild on that child with the rest of
\* the payload; one whose payload carries no childId ends in an error, the store unchanged
C14_UpdateChildServed ==
    [][FunctionCallRequest("update_child")
       => IF HasKey(last'.llm.args, "childId")
             THEN (/\ last'.storeUp
                   /\ last'.llm.args["childId"]
                         \in DOMAIN db.children[last'.workflow_data["user_id"]]
                   /\ ChildProfile(MergedChildOfRequest).ok)
                  => /\ last'.ret.status = "success"
                     /\ db'.children[last'.workflow_data["user_id"]][last'.llm.args["childId"]]
                           = ChildProfile(MergedChildOfRequest).val
          ELSE last'.ret.status = "error" /\ db' = db]_vars

\* the action values the coordinator serves
KnownActions == {"view", "update_profile", "add_spouse", "add_child", "update_child"}

\* C15: a request whose action is none of view, update_profile, add_spouse, add_child,
\* update_child is answered with status error, never with success or needs_input,
\* whatever the model call does
C15_UnknownActionIsError ==
    (/\ last.op = "process"
     /\ HasKey(last.workflow_data, "user_id")
     /\ HasKey(last.workflow_data, "action")
     /\ last.workflow_data["action"] \notin KnownActions)
    => last.ret.status = "error"

\* the request of the call l is for action view: named, or by default
IsViewRequest(l) ==
    /\ l.op = "process"
    /\ HasKey(l.workflow_data, "user_id")
    /\ (HasKey(l.workflow_data, "action") => l.workflow_data["action"] = "view")

\* C16: a view request makes no model call and leaves the persisted profile graph as it
\* was, for a user with a record and for one without
C16_ViewWritesNothing ==
    [][(last = Idle /\ IsViewRequest(last'))
       => (~CallsModel(last'.workflow_data) /\ db' = db)]_vars

\* the three replies to a view request
NoProfileReply ==
    "I see you haven't set up your profile yet. Would you like to create one now?"

MissingReply(missing_fields) ==
    "Your profile is incomplete. The following information is missing: "
       \o JoinComma(missing_fields) \o ". Would you like to add this information?"

CompleteReply ==
    "Your profile is complete! Let me know if you'd like to view or update any information."

\* C17: a view request whose status was fetched is answered success with the status of
\* the user's record and the reply the status alone decides: the no-profile reply
\* exactly when exists is false, the reply listing missing_fields exactly when the
\* profile exists and is not complete, the complete reply exactly when it exists and is
\* complete
C17_ViewReplyFromStatus ==
    (IsViewRequest(last) /\ last.storeUp)
    => /\ last.ret.status = "success"
       /\ last.ret.profile_status.exists
             = (last.workflow_data["user_id"] \in DOMAIN db.users)
       /\ (last.ret.response = NoProfileReply) = ~last.ret.profile_status.exists
       /\ (last.ret.response = MissingReply(last.ret.profile_status.missing_fields))
             = (last.ret.profile_status.exists /\ ~last.ret.profile_status.is_complete)
       /\ (last.ret.response = CompleteReply)
             = (last.ret.profile_status.exists /\ last.ret.profile_status.is_complete)

\* C17 witness: a view request on a stored, incomplete profile has been answered with
\* the reply that lists its missing fields
C17_IncompleteProfileViewed ==
    /\ IsViewRequest(last)
    /\ last.storeUp
    /\ last.ret.profile_status.exists
    /\ ~last.ret.profile_status.is_complete
    /\ Len(last.ret.profile_status.missing_fields) > 0
    /\ last.ret.response = MissingReply(last.ret.profile_status.missing_fields)

----------------------------------------------------------------------------
(* The router's contract: C19 and C20 *)

\* the fixed replies the program gives with a failure
FailureResponses ==
    {"An error occurred while processing your request.",
     "There was an issue retrieving your profile information.",
     "An unexpected error occurred while processing your request."}

\* the router answered with an error result
RouterFailed == last.op = "MainAgent.process" /\ last.ret["workflow"] = "error"

\* the chat endpoint reached the coordinator, which answered with status error
CoordinatorFailed ==
    /\ last.op = "chat_endpoint"
    /\ last.main_response["workflow"] = "profile"
    /\ last.ret.status = "error"

\* C19: every failure outcome, an error result of the router or a coordinator response
\* with status error, carries one of the fixed polite replies in response and a
\* non-empty technical message in error
C19_FailureCarriesResponseAndError ==
    /\ RouterFailed =>
          /\ HasKey(last.ret, "response")
          /\ last.ret["response"] \in FailureResponses
          /\ HasKey(last.ret, "error")
          /\ last.ret["error"] # ""
    /\ CoordinatorFailed =>
          /\ last.ret.response \in FailureResponses
          /\ Truthy(last.ret.error)

\* the router's model replied with a JSON object whose workflow is profile
ProfileReply ==
    /\ last.op = "MainAgent.process"
    /\ last.llm.kind = "reply"
    /\ "obj" \in DOMAIN last.llm.text
    /\ HasKey(last.llm.text.obj, "workflow")
    /\ last.llm.text.obj["workflow"] = "profile"

\* the action the model's reply names is one of the four valid ones
NamesValidAction ==
    /\ HasKey(last.llm.text.obj, "action")
    /\ last.llm.text.obj["action"] \in {"update_profile", "add_spouse", "add_child", "view"}

\* the router's result is the model's reply with the user_id and the onboarding
\* action, context and welcome
ForcedToOnboarding ==
    /\ DOMAIN last.ret = DOMAIN last.llm.text.obj \cup {"user_id", "action", "context", "response"}
    /\ last.ret["action"] = "update_profile"
    /\ last.ret["context"] = "New user sign-in"
    /\ last.ret["response"] = "Welcome to ParentPal! I'm thrilled to have you with us. Let's get started on setting up your profile. This will help us tailor your experience and provide you with the most relevant information and suggestions. If you need any help along the way, just let me know!"
    /\ last.ret["user_id"] = last.user
    /\ last.ret["workflow"] = "profile"

\* the router's result is the model's reply with the user_id and nothing else changed
PassedThrough ==
    /\ DOMAIN last.ret = DOMAIN last.llm.text.obj \cup {"user_id"}
    /\ last.ret["user_id"] = last.user
    /\ \A k \in DOMAIN last.llm.text.obj \ {"user_id"} : last.ret[k] = last.llm.text.obj[k]

\* C20: when the router's model answers with workflow profile, an action that is
\* missing, empty or not one of update_profile, add_spouse, add_child, view is replaced
\* by update_profile with context "New user sign-in" and the fixed welcome; a valid
\* action passes through unchanged
C20_InvalidActionForcedToOnboarding ==
    ProfileReply => IF NamesValidAction THEN PassedThrough ELSE ForcedToOnboarding

\* C20: the model named the action delete_profile and the router answered with
\* update_profile
C20_UnknownActionForced ==
    /\ ProfileReply
    /\ HasKey(last.llm.text.obj, "action")
    /\ last.llm.text.obj["action"] = "delete_profile"
    /\ last.ret["action"] = "update_profile"


----------------------------------------------------------------------------
(* The router's contract: C21 to C23 *)

\* the router answered with the error result naming the calling user
ErrorResultReturned ==
    /\ DOMAIN last.ret = {"workflow", "error", "user_id"}
    /\ last.ret["workflow"] = "error"
    /\ last.ret["error"] # ""
    /\ last.ret["user_id"] = last.user

\* the model's reply is a JSON object, the structured result the router expects
ParsesAsStructuredResult == "obj" \in DOMAIN last.llm.text

\* the model's reply as raw text
RawTextOfReply ==
    IF "raw" \in DOMAIN last.llm.text THEN last.llm.text.raw ELSE "42"

\* C21: MainAgent.process never raises; when the model call fails, or a structured
\* reply cannot be handled, it returns {workflow: "error", error, user_id}; when the
\* reply does not parse as a structured result it returns the raw text wrapped as
\* {workflow: "general", response: raw text}
C21_RouterNeverPropagates ==
    last.op = "MainAgent.process" =>
       /\ ~last.raised
       /\ last.llm.kind = "raise" => ErrorResultReturned
       /\ (last.llm.kind = "reply" /\ ParsesAsStructuredResult
           /\ ~HasKey(last.llm.text.obj, "workflow")) => ErrorResultReturned
       /\ (last.llm.kind = "reply" /\ ~ParsesAsStructuredResult) =>
             last.ret = [workflow |-> "general", response |-> RawTextOfReply,
                         user_id |-> last.user]


\* how many of the logged exchanges the history holds
KeptExchanges == IF Len(exchanges) < 5 THEN Len(exchanges) ELSE 5

\* the (message, reply) pairs of the most recent logged exchanges, oldest first
MostRecentExchanges ==
    [i \in 1..KeptExchanges |->
        <<exchanges[Len(exchanges) - KeptExchanges + i].message,
          exchanges[Len(exchanges) - KeptExchanges + i].reply>>]

\* C22: after any sequence of MainAgent.process calls the history holds at most 5
\* pairs, and they are the most recent exchanges the model replied to, in the order
\* they happened
C22_HistoryIsLastFiveExchanges ==
    /\ Len(chat_history) <= 5
    /\ chat_history = MostRecentExchanges

\* C22: a sixth exchange was answered and the history holds five pairs
C22_OldestExchangeDropped ==
    /\ Len(exchanges) > 5
    /\ Len(chat_history) = 5
    /\ last.op = "MainAgent.process"

\* the user who made the request behind the i-th pair of the history
AskerOfPair(i) == exchanges[Len(exchanges) - Len(chat_history) + i].user

\* C23: the history the model is given for a request of a user holds only pairs of
\* earlier requests of that same user
C23_HistoryOnlyOfRequestingUser ==
    [][(last = Idle /\ last'.op = "MainAgent.process") =>
          \A i \in 1..Len(chat_history) : AskerOfPair(i) = last'.user]_vars


----------------------------------------------------------------------------
(* Two users side by side: C24 *)

\* the step is the program answering a request
RequestAnswered == last = Idle /\ last' # Idle

\* the user the answered request is for
RequestUser ==
    IF last'.op = "process" THEN last'.workflow_data["user_id"] ELSE last'.user

\* everything the store holds for user v
RecordsOf(d, v) ==
    [user |-> IF v \in DOMAIN d.users THEN d.users[v] ELSE None,
     spouse |-> d.spouse[v],
     children |-> d.children[v]]

\* the store with the records of every user but u removed
OnlyOf(d, u) ==
    [users |-> [v \in DOMAIN d.users \cap {u} |-> d.users[v]],
     spouse |-> [v \in Users |-> IF v = u THEN d.spouse[v] ELSE <<>>],
     children |-> [v \in Users |-> IF v = u THEN d.children[v] ELSE <<>>]]

\* what the answered request returns from the store d
AnswerOn(d, newId) ==
    IF last'.op = "updateUserProfile"
       THEN updateUserProfile(d, last'.user, last'.data, clock)
    ELSE IF last'.op = "addSpouse" THEN addSpouse(d, last'.user, last'.data)
    ELSE IF last'.op = "addChild" THEN addChild(d, last'.user, last'.data, newId)
    ELSE IF last'.op = "updateChild"
       THEN updateChild(d, last'.user, last'.childId, last'.data)
    ELSE IF last'.op = "getUserProfile" THEN getUserProfile(d, last'.user)
    ELSE IF last'.op = "getProfileCompletionStatus"
       THEN getProfileCompletionStatus(d, last'.user)
    ELSE process(d, last'.workflow_data, last'.llm, last'.storeUp, clock, newId)

\* the answer is the one the request gets from a store without the other users
SameAnswerAlone ==
    \E newId \in ChildIds \cup {0} :
       /\ AnswerOn(OnlyOf(db, RequestUser), newId).raised = last'.raised
       /\ AnswerOn(OnlyOf(db, RequestUser), newId).ret = last'.ret

\* C24: a ProfileService call or coordinator request for one user leaves every record
\* of every other user (user document, spouse, children) as it was, and its answer is
\* the one it would get if the other users' requests had never run
C24_OtherUsersUntouched ==
    [][RequestAnswered =>
          /\ \A v \in Users \ {RequestUser} : RecordsOf(db', v) = RecordsOf(db, v)
          /\ SameAnswerAlone]_vars

\* C24: a child was added for u1 while u2 has a profile, a spouse and a child
C24_ChildAddedBesideOtherUser ==
    /\ last.op = "addChild"
    /\ last.user = "u1"
    /\ ~last.raised
    /\ "u2" \in DOMAIN db.users
    /\ HasKey(db.users["u2"], "childrenCount")
    /\ DOMAIN db.spouse["u2"] # {}
    /\ DOMAIN db.children["u2"] # {}


----------------------------------------------------------------------------
(* The domain model's contract: C25 and C26 *)

\* the date of the construction being answered is after today
DateInFuture ==
    \/ last.y > Today.y
    \/ last.y = Today.y /\ last.m > Today.m
    \/ last.y = Today.y /\ last.m = Today.m /\ last.d > Today.d

\* this year's birthday of the construction's date is still to come
BirthdayToCome == last.m > Today.m \/ (last.m = Today.m /\ last.d > Today.d)

\* the age the construction's date implies: the year difference, minus one when the
\* birthday has not yet occurred this year
ComputedAge == Today.y - last.y - (IF BirthdayToCome THEN 1 ELSE 0)

\* the construction's date is a day of the calendar
DenotesDate ==
    /\ last.y >= 1
    /\ last.m \in 1..12
    /\ last.d \in 1..DaysInMonth(last.m, last.y)

\* C25: a construction of UserProfile, SpouseProfile or ChildProfile with a date of
\* birth MM/DD/YYYY that is in the future, or implies an age over 120, or has a month
\* outside 1..12 or a day outside 1..31, fails with the date validation error
C25_BadDateRefused ==
    (/\ last.op = "construct"
     /\ \/ DenotesDate /\ (DateInFuture \/ ComputedAge > 120)
        \/ last.m \notin 1..12
        \/ last.d \notin 1..31)
    => (~last.ret.ok /\ last.ret.err = "Date validation error")

\* C25: a child was constructed with tomorrow as date of birth, and refused
C25_FutureChildRefused ==
    /\ last.op = "construct"
    /\ last.variant = "ChildProfile"
    /\ last.m = Today.m /\ last.d = Today.d + 1 /\ last.y = Today.y
    /\ ~last.ret.ok

\* a ChildProfile was constructed with a date of the calendar
ChildConstructed == last.op = "construct" /\ last.variant = "ChildProfile" /\ DenotesDate

\* C26: a ChildProfile whose date of birth implies an age of 18 or more
\* fails with the child-age error, and one that passes the base checks with an age of
\* 17 or less is accepted
C26_AdultChildRefusedWithAgeError ==
    /\ (ChildConstructed /\ ComputedAge >= 18) =>
          (~last.ret.ok /\ last.ret.err = "Child's age must be under 18")
    /\ (ChildConstructed /\ ComputedAge <= 17 /\ ~DateInFuture) =>
          (last.ret.ok /\ last.ret.val.dateOfBirth = DateStr(last.m, last.d, last.y))

----------------------------------------------------------------------------
(* Calls for one user at the same time: C27 *)

\* two updateUserProfile calls that both read the document before either wrote have
\* both written and returned
RaceFinished ==
    \A w \in Workers : calls[w].pc = "done" /\ calls[w].wrote /\ calls[w].raced

\* the worker whose call wrote last
LastWriter == CHOOSE w \in Workers : calls[w].latest

\* the fields a call was given, without the timestamp the call adds
GivenFields(w) == DOMAIN calls[w].profileData \ {"profileUpdatedAt", "profileCreatedAt"}

\* C27: when two updateUserProfile calls for one user both read the document before
\* either writes, the stored profile is the one the last writer validated from its
\* own read and its own data
C27_LastMergeWins ==
    RaceFinished =>
       \A k \in DOMAIN ValidatedBy(LastWriter).val \ {"profileComplete"} :
          db.users[RaceUser][k] = ValidatedBy(LastWriter).val[k]

\* C27: both calls returned success and a field only the first writer was given no
\* longer has the first writer's value
C27_FirstWriteLost ==
    /\ RaceFinished
    /\ \E w \in Workers \ {LastWriter} :
          \E k \in GivenFields(w) \ GivenFields(LastWriter) :
             db.users[RaceUser][k] # calls[w].profileData[k]


----------------------------------------------------------------------------
(* The order of calls: C28 *)

\* the step is the coordinator answering a request that names its user
CoordinatorRequest ==
    /\ last = Idle
    /\ last'.op = "process"
    /\ HasKey(last'.workflow_data, "user_id")

\* the request made the extraction model call and the extraction returned success
ExtractionSucceeded ==
    /\ CallsModel(last'.workflow_data)
    /\ ProfileAgentProcess(last'.workflow_data["action"], last'.llm, clock).status = "success"

\* C28: a coordinator request fetches the status, then for a non-view action makes
\* the extraction call, and changes the store only after the extraction returned
\* success: a request whose extraction did not succeed, or that made none, leaves
\* the store as it was
C28_StoreChangesOnlyAfterExtraction ==
    [][(CoordinatorRequest /\ db' # db) => ExtractionSucceeded]_vars


----------------------------------------------------------------------------
(* What the stored user record keeps: C29 and C30 *)

\* v is a string with something other than blanks in it
NonEmptyText(v) == IsToks(v) /\ Strip(v) # Str(<<>>)

\* the stored user document p has a first and a last name and an address of at
\* least two comma-separated parts
SatisfiesUserProfile(p) ==
    /\ HasKey(p, "name")
    /\ HasKey(p["name"], "firstName") /\ NonEmptyText(p["name"]["firstName"])
    /\ HasKey(p["name"], "lastName") /\ NonEmptyText(p["name"]["lastName"])
    /\ HasKey(p, "address") /\ NonEmptyText(p["address"])
    /\ CommaParts(Strip(p["address"])) >= 2

\* C29: after any sequence of ProfileService calls, failed ones included, every user
\* getUserProfile reports as existing has a stored record with a non-empty firstName
\* and lastName and an address of at least 2 comma-separated parts
C29_ExistingUserIsValid ==
    \A u \in Users :
       getUserProfile(db, u).ret.exists => SatisfiesUserProfile(db.users[u])

\* C30: once a user record holds a profileCreatedAt, no later call changes it
C30_CreatedAtNeverChanges ==
    [][\A u \in Users :
          (u \in DOMAIN db.users /\ HasKey(db.users[u], "profileCreatedAt")) =>
             /\ u \in DOMAIN db'.users
             /\ HasKey(db'.users[u], "profileCreatedAt")
             /\ db'.users[u]["profileCreatedAt"] = db.users[u]["profileCreatedAt"]]_vars

====
